---- MODULE Spec2Model ----
(***************************************************************************)
(* Model of the ATS score route of server.js: POST /api/calculate-ats.     *)
(* Strings are sequences of one-character strings.  JavaScript numbers are *)
(* IEEE-754 doubles: a positive double is a record [mant, exp] whose mant  *)
(* is the 53-bit significand and whose value is mant * 2^(exp - 52).       *)
(***************************************************************************)
EXTENDS Integers, Sequences, FiniteSets, TLC

\* ------------------------------------------------------------------ bounds
\* Requests in flight at once in the concurrent specification.
MaxRequests == 2
\* Longest resume text and longest generation response of the scorer
\* specification (every string up to that length is a possible result).
MaxPdfLen == 2
MaxGenLen == 5
\* Length of the long keyword lists the scorer specification adds.
LongListLen == 40

\* ----------------------------------------------------------------- strings
PdfAlphabet == {"a", "B"}
GenAlphabet == {"a", "B", " ", ","}
WhiteSpace == {" "}

RECURSIVE StringsUpTo(_, _)
StringsUpTo(alphabet, n) ==
    IF n = 0 THEN {<<>>}
    ELSE LET shorter == StringsUpTo(alphabet, n - 1)
         IN  shorter \cup {Append(s, c) : s \in {t \in shorter : Len(t) = n - 1},
                                          c \in alphabet}

\* String.prototype.toLowerCase, character by character.
LowerChar(c) == IF c = "A" THEN "a" ELSE IF c = "B" THEN "b" ELSE c

RECURSIVE LowerFrom(_, _, _)
LowerFrom(s, i, acc) ==
    IF i > Len(s) THEN acc ELSE LowerFrom(s, i + 1, Append(acc, LowerChar(s[i])))

ToLowerCase(s) == LowerFrom(s, 1, <<>>)

RECURSIVE SkipBlanks(_, _)
\* the first position from i on that holds no white space
SkipBlanks(s, i) ==
    IF i <= Len(s) /\ s[i] \in WhiteSpace THEN SkipBlanks(s, i + 1) ELSE i

RECURSIVE SkipBlanksBack(_, _)
\* the last position up to j that holds no white space
SkipBlanksBack(s, j) ==
    IF j >= 1 /\ s[j] \in WhiteSpace THEN SkipBlanksBack(s, j - 1) ELSE j

\* String.prototype.trim
Trim(s) == SubSeq(s, SkipBlanks(s, 1), SkipBlanksBack(s, Len(s)))

RECURSIVE SplitFrom(_, _, _, _)
SplitFrom(s, i, cur, acc) ==
    IF i > Len(s) THEN Append(acc, cur)
    ELSE IF s[i] = "," THEN SplitFrom(s, i + 1, <<>>, Append(acc, cur))
    ELSE SplitFrom(s, i + 1, Append(cur, s[i]), acc)

\* A split that drops an empty input, as Python's str.split() or a
\* filter(Boolean) would.
SplitDropEmpty(s) == IF s = <<>> THEN <<>> ELSE SplitFrom(s, 1, <<>>, <<>>)

\* keywordsText.split(','): the empty string splits into one empty element.
Split(s) == SplitFrom(s, 1, <<>>, <<>>)

\* String.prototype.includes: literal substring; the empty string is
\* included in every string.
Includes(text, kw) ==
    \E i \in 1..(Len(text) - Len(kw) + 1) : SubSeq(text, i, i + Len(kw) - 1) = kw

RECURSIVE MapNormalize(_, _, _)
MapNormalize(parts, i, acc) ==
    IF i > Len(parts) THEN acc
    ELSE MapNormalize(parts, i + 1, Append(acc, ToLowerCase(Trim(parts[i]))))

\* line 128: keywordsText.split(',').map(kw => kw.trim().toLowerCase())
KeywordsOf(keywordsText) == MapNormalize(Split(keywordsText), 1, <<>>)

RECURSIVE ForEachMatch(_, _, _, _)
ForEachMatch(keywords, resumeTextLower, i, count) ==
    IF i > Len(keywords) THEN count
    ELSE ForEachMatch(keywords, resumeTextLower, i + 1,
                      IF Includes(resumeTextLower, keywords[i])
                      THEN count + 1 ELSE count)

RECURSIVE CountOccurrences(_, _, _, _)
CountOccurrences(keywords, text, i, count) ==
    IF i > Len(keywords) THEN count
    ELSE CountOccurrences(keywords, text, i + 1,
             count + Cardinality({j \in 1..(Len(text) - Len(keywords[i]) + 1) :
                        SubSeq(text, j, j + Len(keywords[i]) - 1) = keywords[i]}))

\* A match count that adds one per occurrence instead of one per keyword.
MatchCountOccurrences(keywords, resumeText) ==
    CountOccurrences(keywords, ToLowerCase(resumeText), 1, 0)

\* lines 130-137: matchCount after the forEach
MatchCountOf(keywords, resumeText) ==
    ForEachMatch(keywords, ToLowerCase(resumeText), 1, 0)

\* ----------------------------------------------------------------- doubles
\* A significand is 53 bits: the leading bit and four limbs of 13 bits,
\* <<top, l1, l2, l3, l4>>, most significant first.
LimbBits == 13

RECURSIVE Pow2(_)
Pow2(k) == IF k = 0 THEN 1 ELSE 2 * Pow2(k - 1)

Limb == Pow2(LimbBits)

RECURSIVE ShiftUp(_, _, _)
\* the least k with a * 2^k >= b
ShiftUp(a, b, k) == IF a >= b THEN k ELSE ShiftUp(2 * a, b, k + 1)

RECURSIVE BitLen(_)
BitLen(x) == IF x < 2 THEN 1 ELSE 1 + BitLen(x \div 2)

\* mant + 1 unit in the last place; a top digit of 2 is a carry out.
Increment(mant) ==
    LET s4 == mant[5] + 1
        s3 == mant[4] + (s4 \div Limb)
        s2 == mant[3] + (s3 \div Limb)
        s1 == mant[2] + (s2 \div Limb)
        s0 == mant[1] + (s1 \div Limb)
    IN  <<s0, s1 % Limb, s2 % Limb, s3 % Limb, s4 % Limb>>

\* Round-to-nearest, ties-to-even, of a 53-bit significand at exponent exp,
\* given whether the discarded part is above or exactly at one half.
RoundEven(mant, exp, aboveHalf, atHalf) ==
    IF aboveHalf \/ (atHalf /\ mant[5] % 2 = 1)
    THEN LET up == Increment(mant)
         IN  IF up[1] = 2
             THEN [mant |-> <<1, 0, 0, 0, 0>>, exp |-> exp + 1]
             ELSE [mant |-> up, exp |-> exp]
    ELSE [mant |-> mant, exp |-> exp]

\* The next limb of the quotient rem / d (rem < d) and the new remainder.
DivLimb(rem, d) == [q |-> (rem * Limb) \div d, rem |-> (rem * Limb) % d]

\* The double nearest to m / n, for integers 0 < m, n < 2^17.
FloatDiv(m, n) ==
    LET k  == ShiftUp(m, n, 0)
        j  == ShiftUp(n, m + 1, 0) - 1
        d  == IF m >= n THEN n * Pow2(j) ELSE n
        d1 == DivLimb((IF m >= n THEN m ELSE m * Pow2(k)) - d, d)
        d2 == DivLimb(d1.rem, d)
        d3 == DivLimb(d2.rem, d)
        d4 == DivLimb(d3.rem, d)
    IN  RoundEven(<<1, d1.q, d2.q, d3.q, d4.q>>, IF m >= n THEN j ELSE 0 - k,
                  2 * d4.rem > d, 2 * d4.rem = d)

\* The double nearest to f * c, for a positive double f and an integer
\* 1 <= c < 2^13.
FloatMul(f, c) ==
    LET t4 == f.mant[5] * c
        t3 == f.mant[4] * c + (t4 \div Limb)
        t2 == f.mant[3] * c + (t3 \div Limb)
        t1 == f.mant[2] * c + (t2 \div Limb)
        t0 == f.mant[1] * c + (t1 \div Limb)
        s  == BitLen(t0) - 1
        lo == Pow2(s)
        hi == Pow2(LimbBits - s)
        n1 == (t0 % lo) * hi + ((t1 % Limb) \div lo)
        n2 == (t1 % lo) * hi + ((t2 % Limb) \div lo)
        n3 == (t2 % lo) * hi + ((t3 % Limb) \div lo)
        n4 == (t3 % lo) * hi + ((t4 % Limb) \div lo)
        dropped == t4 % lo
    IN  RoundEven(<<1, n1, n2, n3, n4>>, f.exp + s,
                  2 * dropped > lo, s > 0 /\ 2 * dropped = lo)

\* Math.round of a positive double below 2^25: floor(f + 0.5), which is the
\* integer part plus the bit worth one half.
MathRound(f) ==
    IF f.exp < 0 - 1 THEN 0
    ELSE IF f.exp = 0 - 1 THEN 1
    ELSE LET top == (f.mant[1] * Limb + f.mant[2]) * Limb + f.mant[3]
             sh  == 2 * LimbBits - f.exp
         IN  (top \div Pow2(sh)) + ((top \div Pow2(sh - 1)) % 2)

\* A JavaScript number is <<"number", n>>; NaN and Infinity are their own
\* values.
Num(n) == <<"number", n>>
NaN == <<"NaN", 0>>
Infinity == <<"Infinity", 0>>

\* A score that leaves out the factor 100.
ScoreFraction(matchCount, len) ==
    IF len = 0 THEN IF matchCount = 0 THEN NaN ELSE Infinity
    ELSE Num((2 * matchCount + len) \div (2 * len))

\* line 139: Math.round((matchCount / keywords.length) * 100); 0 / 0 is NaN,
\* m / 0 is Infinity, and Math.round leaves both as they are.
MathRoundPercent(matchCount, len) ==
    IF len = 0 THEN IF matchCount = 0 THEN NaN ELSE Infinity
    ELSE IF matchCount = 0 THEN Num(0)
    ELSE Num(MathRound(FloatMul(FloatDiv(matchCount, len), 100)))

\* The scores of every keyword list the specifications reach, computed once.
MaxKeywords == IF LongListLen > MaxGenLen + 1 THEN LongListLen ELSE MaxGenLen + 1

RECURSIVE ScoreRow(_, _, _)
\* <<score of 0 matches, ..., score of len matches>>
ScoreRow(len, m, acc) ==
    IF m > len THEN acc ELSE ScoreRow(len, m + 1, Append(acc, MathRoundPercent(m, len)))

RECURSIVE ScoreRowsUpTo(_, _)
ScoreRowsUpTo(len, acc) ==
    IF len > MaxKeywords THEN acc
    ELSE ScoreRowsUpTo(len + 1, Append(acc, ScoreRow(len, 0, <<>>)))

ScoreRows == ScoreRowsUpTo(1, <<>>)

\* line 139: the score of matchCount matches among len keywords
ScoreOf(matchCount, len) ==
    IF len \in 1..MaxKeywords /\ matchCount \in 0..len
    THEN ScoreRows[len][matchCount + 1]
    ELSE MathRoundPercent(matchCount, len)

\* ------------------------------------------------------------------- state
Requests == 1..MaxRequests

Absent == "absent"
Files == {Absent, "pdf"}
JobDescriptions == {Absent, "", "jd"}

\* JavaScript falsiness of req.file and req.body.jobDescription
Falsy(v) == v \in {Absent, ""}

\* the score of a response that carries none
NoScore == <<"none", 0>>

NoResponse == [status |-> 0, score |-> NoScore]
BadRequest == [status |-> 400, score |-> NoScore]

\* A catch block that answers with a zero score instead of an error.
CatchResponseZero == [status |-> 200, score |-> Num(0)]

\* lines 142-145: the catch block's response
CatchResponse == [status |-> 500, score |-> NoScore]

\* results of the external calls
Pending == <<"pending">>
Failed == <<"error">>
Blocked == <<"blocked">>
Text(t) == <<"text", t>>

NoLocals == [resumeText |-> <<>>, result |-> Pending, keywordsText |-> <<>>,
             keywords |-> <<>>, matchCount |-> 0]

VARIABLES
    pc,        \* where each request's handler is suspended
    req,       \* each request's inputs: req.file and req.body.jobDescription
    locals,    \* the handler's const/let bindings, per invocation
    res,       \* the response written to each request
    sent,      \* how many responses were written to each request
    pdfCalls,  \* calls of pdf() each request made
    genCalls,  \* calls of model.generateContent() each request made
    pdfOut,    \* what the request's pdf() call settled with
    genOut,    \* what the request's generateContent() call settled with
    uploads    \* files the upload middleware has written to disk

vars == <<pc, req, locals, res, sent, pdfCalls, genCalls, pdfOut, genOut, uploads>>

\* One set of bindings shared by every invocation, as module-level
\* variables would be.
SharedSlot(r) == 1

\* lines 112-139: every binding is a const or let inside the handler, so
\* each invocation has its own.
Slot(r) == r

\* lines 31-32: multer.memoryStorage() keeps the file in req.file.buffer and
\* writes nothing.
StoreUpload(files, r, file) == files

\* A validation that rejects only when both inputs are missing.
InvalidBoth(file, jobDescription) == Falsy(file) /\ Falsy(jobDescription)

\* line 108: !req.file || !req.body.jobDescription
Invalid(file, jobDescription) == Falsy(file) \/ Falsy(jobDescription)

Init ==
    /\ pc = [r \in Requests |-> "idle"]
    /\ req = [r \in Requests |-> [file |-> Absent, jobDescription |-> Absent]]
    /\ locals = [r \in Requests |-> NoLocals]
    /\ res = [r \in Requests |-> NoResponse]
    /\ sent = [r \in Requests |-> 0]
    /\ pdfCalls = [r \in Requests |-> 0]
    /\ genCalls = [r \in Requests |-> 0]
    /\ pdfOut = [r \in Requests |-> Pending]
    /\ genOut = [r \in Requests |-> Pending]
    /\ uploads = {}

\* res.status(..).send(..) or res.json(..): one response written, and the
\* handler returns.
Respond(r, response) ==
    /\ res' = [res EXCEPT ![r] = response]
    /\ sent' = [sent EXCEPT ![r] = @ + 1]
    /\ pc' = [pc EXCEPT ![r] = "done"]

\* lines 106-113: the request arrives, the upload middleware runs, and the
\* handler runs to its first await.
CalculateAts(r) ==
    /\ pc[r] = "idle"
    /\ \E file \in Files, jobDescription \in JobDescriptions :
        /\ req' = [req EXCEPT ![r] = [file |-> file, jobDescription |-> jobDescription]]
        /\ uploads' = StoreUpload(uploads, r, file)
        /\ IF Invalid(file, jobDescription)
           THEN Respond(r, BadRequest) /\ UNCHANGED pdfCalls
           ELSE IF file = Absent
           THEN \* req.file.buffer of undefined throws a TypeError
                Respond(r, CatchResponse) /\ UNCHANGED pdfCalls
           ELSE /\ pdfCalls' = [pdfCalls EXCEPT ![r] = @ + 1]
                /\ pc' = [pc EXCEPT ![r] = "awaitPdf"]
                /\ UNCHANGED <<res, sent>>
    /\ UNCHANGED <<locals, genCalls, pdfOut, genOut>>

\* lines 113-125: pdf() resolves; the handler builds the prompt and calls
\* the generation service.
PdfResolve(r, texts) ==
    /\ pc[r] = "awaitPdf"
    /\ \E t \in texts :
        /\ locals' = [locals EXCEPT ![Slot(r)].resumeText = t]
        /\ pdfOut' = [pdfOut EXCEPT ![r] = Text(t)]
    /\ genCalls' = [genCalls EXCEPT ![r] = @ + 1]
    /\ pc' = [pc EXCEPT ![r] = "awaitGen"]
    /\ UNCHANGED <<req, res, sent, pdfCalls, genOut, uploads>>

\* An extraction failure answered by going on with an empty resume text.
PdfRejectFallback(r) ==
    /\ pc[r] = "awaitPdf"
    /\ locals' = [locals EXCEPT ![Slot(r)].resumeText = <<>>]
    /\ pdfOut' = [pdfOut EXCEPT ![r] = Failed]
    /\ genCalls' = [genCalls EXCEPT ![r] = @ + 1]
    /\ pc' = [pc EXCEPT ![r] = "awaitGen"]
    /\ UNCHANGED <<req, res, sent, pdfCalls, genOut, uploads>>

\* lines 113, 142-145: pdf() rejects; the catch block answers.
PdfReject(r) ==
    /\ pc[r] = "awaitPdf"
    /\ pdfOut' = [pdfOut EXCEPT ![r] = Failed]
    /\ Respond(r, CatchResponse)
    /\ UNCHANGED <<req, locals, pdfCalls, genCalls, genOut, uploads>>

\* lines 125-126: generateContent() resolves with a result whose text() will
\* return a string or throw (a blocked response); the handler suspends again
\* at await result.response.
GenResolve(r, texts) ==
    /\ pc[r] = "awaitGen"
    /\ \E g \in {Text(t) : t \in texts} \cup {Blocked} :
        /\ locals' = [locals EXCEPT ![Slot(r)].result = g]
        /\ genOut' = [genOut EXCEPT ![r] = g]
    /\ pc' = [pc EXCEPT ![r] = "awaitResponse"]
    /\ UNCHANGED <<req, res, sent, pdfCalls, genCalls, pdfOut, uploads>>

\* A failed generation call that is issued again (up to three calls).
GenRejectRetry(r) ==
    /\ pc[r] = "awaitGen"
    /\ genCalls[r] < 3
    /\ genCalls' = [genCalls EXCEPT ![r] = @ + 1]
    /\ genOut' = [genOut EXCEPT ![r] = Failed]
    /\ UNCHANGED <<pc, req, locals, res, sent, pdfCalls, pdfOut, uploads>>

\* lines 125, 142-145: generateContent() rejects; the catch block answers.
GenReject(r) ==
    /\ pc[r] = "awaitGen"
    /\ genOut' = [genOut EXCEPT ![r] = Failed]
    /\ Respond(r, CatchResponse)
    /\ UNCHANGED <<req, locals, pdfCalls, genCalls, pdfOut, uploads>>

\* The score step with response.text() outside the try block: a blocked
\* response ends the handler without any answer.
ResponseReadyNoCatch(r) ==
    /\ pc[r] = "awaitResponse"
    /\ LET l == locals[Slot(r)]
       IN  IF l.result = Blocked
           THEN /\ pc' = [pc EXCEPT ![r] = "done"]
                /\ UNCHANGED <<locals, res, sent>>
           ELSE \E keywordsText \in {l.result[2]} :
                \E keywords \in {KeywordsOf(keywordsText)} :
                \E matchCount \in {MatchCountOf(keywords, l.resumeText)} :
                \E score \in {ScoreOf(matchCount, Len(keywords))} :
                    /\ locals' = [locals EXCEPT ![Slot(r)] =
                          [l EXCEPT !.keywordsText = keywordsText,
                                    !.keywords = keywords,
                                    !.matchCount = matchCount]]
                    /\ Respond(r, [status |-> 200, score |-> score])
    /\ UNCHANGED <<req, pdfCalls, genCalls, pdfOut, genOut, uploads>>

\* lines 126-145: the handler resumes after await result.response, reads
\* response.text(), computes the score and answers; a throwing text() is
\* answered by the catch block.
ResponseReady(r) ==
    /\ pc[r] = "awaitResponse"
    /\ LET l == locals[Slot(r)]
       IN  IF l.result = Blocked
           THEN Respond(r, CatchResponse) /\ UNCHANGED locals
           ELSE \E keywordsText \in {l.result[2]} :
                \E keywords \in {KeywordsOf(keywordsText)} :
                \E matchCount \in {MatchCountOf(keywords, l.resumeText)} :
                \E score \in {ScoreOf(matchCount, Len(keywords))} :
                    /\ locals' = [locals EXCEPT ![Slot(r)] =
                          [l EXCEPT !.keywordsText = keywordsText,
                                    !.keywords = keywords,
                                    !.matchCount = matchCount]]
                    /\ Respond(r, [status |-> 200, score |-> score])
    /\ UNCHANGED <<req, pdfCalls, genCalls, pdfOut, genOut, uploads>>

\* lines 106-146: one step of the handler of request r, the external calls
\* settling with any of the given texts.
Handler(r, pdfTexts, genTexts) ==
    \/ CalculateAts(r)
    \/ PdfResolve(r, pdfTexts)
    \/ PdfReject(r)
    \/ GenResolve(r, genTexts)
    \/ GenReject(r)
    \/ ResponseReady(r)

\* --------------------------------------------------------- specifications
\* Concurrent requests: every interleaving of the handlers' steps.
ConcPdfTexts == {<<"a">>, <<"B">>}
ConcGenTexts == {<<"a">>, <<"B", ",", " ", "a">>}

Next == \E r \in Requests : Handler(r, ConcPdfTexts, ConcGenTexts)

Spec == Init /\ [][Next]_vars

\* Every external call settles and the event loop runs every continuation.
Settles(r) ==
    \/ PdfResolve(r, ConcPdfTexts)
    \/ PdfReject(r)
    \/ GenResolve(r, ConcGenTexts)
    \/ GenReject(r)
    \/ ResponseReady(r)

SpecFair == Spec /\ \A r \in Requests : WF_vars(Settles(r))

\* The scorer: one request, every short resume text and generation
\* response, and the long keyword lists.
RECURSIVE KeywordCsv(_, _, _)
\* a comma-separated list of n keywords, the first m of them "a" and the
\* others "B"
KeywordCsv(m, n, i) ==
    IF i > n THEN <<>>
    ELSE (IF i = 1 THEN <<>> ELSE <<",">>)
         \o <<(IF i <= m THEN "a" ELSE "B")>> \o KeywordCsv(m, n, i + 1)

LongLists == {KeywordCsv(m, LongListLen, 1) : m \in 0..LongListLen}

ScorerPdfTexts == StringsUpTo(PdfAlphabet, MaxPdfLen)
ScorerGenTexts == StringsUpTo(GenAlphabet, MaxGenLen) \cup LongLists

NextScorer == Handler(1, ScorerPdfTexts, ScorerGenTexts)

SpecScorer == Init /\ [][NextScorer]_vars

\* ------------------------------------------------------------------ claims
\* What the claims speak of, stated without the handler's own operators.
CommaPositions(t) == {i \in 1..Len(t) : t[i] = ","}

\* A field starts after position 0 or after a comma and ends before the next
\* comma or the end of the text.
FieldStarts(t) == {0} \cup CommaPositions(t)

FieldEnd(t, s) ==
    LET later == {p \in CommaPositions(t) : p > s}
    IN  IF later = {} THEN Len(t) + 1
        ELSE CHOOSE p \in later : \A q \in later : p <= q

Field(t, s) == SubSeq(t, s + 1, FieldEnd(t, s) - 1)

Stripped(f) ==
    LET ink == {i \in 1..Len(f) : f[i] \notin WhiteSpace}
    IN  IF ink = {} THEN <<>>
        ELSE SubSeq(f, CHOOSE i \in ink : \A j \in ink : i <= j,
                       CHOOSE i \in ink : \A j \in ink : i >= j)

Lowered(s) == [i \in 1..Len(s) |-> LowerChar(s[i])]

\* kw is a literal substring of text
Occurs(kw, text) ==
    \E i \in 0..Len(text) :
        /\ i + Len(kw) <= Len(text)
        /\ \A k \in 1..Len(kw) : text[i + k] = kw[k]

ListedKeyword(t, s) == Lowered(Stripped(Field(t, s)))

MatchedFields(t, resume) ==
    {s \in FieldStarts(t) : Occurs(ListedKeyword(t, s), Lowered(resume))}

RoundHalfUp(num, den) == (2 * num + den) \div (2 * den)

OnlyBlanks(t) == \A i \in 1..Len(t) : t[i] \in WhiteSpace
OnlyBlanksAndCommas(t) == \A i \in 1..Len(t) : t[i] \in WhiteSpace \cup {","}

Succeeded(r) == res[r].status = 200

\* C1: every score returned equals round(100 * matchCount / len(KeywordList)),
\* KeywordList being the comma-separated fields of the generation response,
\* trimmed and lower-cased, duplicates kept, and matchCount the number of
\* fields that occur in the lower-cased resume text.
C1_ScoreIsRoundedRatio ==
    \A r \in Requests :
        Succeeded(r) =>
            res[r].score =
                Num(RoundHalfUp(100 * Cardinality(MatchedFields(genOut[r][2], pdfOut[r][2])),
                                Cardinality(FieldStarts(genOut[r][2]))))

\* C2: every score returned is an integer from 0 to 100, never NaN nor
\* Infinity, whatever text the generation service returned.
C2_ScoreInRange ==
    \A r \in Requests :
        Succeeded(r) => res[r].score[1] = "number" /\ res[r].score[2] \in 0..100

C2_Witness ==
    \E r \in Requests :
        Succeeded(r) /\ res[r].score = Num(67) /\ Len(locals[r].keywords) = 3

\* C3: a request without the resume file or without the job description is
\* answered 400, and it calls neither the extractor nor the generation
\* service.
C3_MissingInputRejected ==
    \A r \in Requests :
        (pc[r] # "idle" /\ (req[r].file = Absent \/ req[r].jobDescription = Absent)) =>
            /\ pc[r] = "done"
            /\ res[r] = BadRequest
            /\ pdfCalls[r] = 0
            /\ genCalls[r] = 0

C3_Witness ==
    \E r \in Requests :
        /\ req[r].file = Absent
        /\ req[r].jobDescription = "jd"
        /\ res[r].status = 400

\* C4: a failed extraction or generation call ends the request with the
\* 500 response, without a score, and no call is made again.
C4_FailureAborts ==
    \A r \in Requests :
        (pdfOut[r] = Failed \/ genOut[r] = Failed) =>
            /\ pc[r] = "done"
            /\ res[r].status = 500
            /\ res[r].score = NoScore
            /\ sent[r] = 1
            /\ pdfCalls[r] = 1
            /\ genCalls[r] = (IF pdfOut[r] = Failed THEN 0 ELSE 1)

C4_Witness ==
    \E r \in Requests : genOut[r] = Failed /\ pdfOut[r] = Text(<<"a">>) /\ pc[r] = "done"

\* C5 as stated: a response with no usable keyword (empty or only
\* whitespace) leaves KeywordList empty, so the divisor of the score is 0.
C5_EmptyKeywordList ==
    \A r \in Requests :
        (Succeeded(r) /\ OnlyBlanks(genOut[r][2])) => Len(locals[r].keywords) = 0

\* C5 as amended: KeywordList is never empty, so the divisor is never 0; a
\* response of only whitespace and commas gives one empty keyword per field,
\* each of them matches, and the score is 100.
C5_EmptyResponseScores100 ==
    \A r \in Requests :
        Succeeded(r) =>
            /\ Len(locals[r].keywords) >= 1
            /\ OnlyBlanksAndCommas(genOut[r][2]) =>
                /\ Len(locals[r].keywords) = Cardinality(CommaPositions(genOut[r][2])) + 1
                /\ \A i \in 1..Len(locals[r].keywords) : locals[r].keywords[i] = <<>>
                /\ locals[r].matchCount = Len(locals[r].keywords)
                /\ res[r].score = Num(100)

C5_Witness ==
    \E r \in Requests : Succeeded(r) /\ genOut[r] = Text(<<>>) /\ pdfOut[r] = Text(<<>>)

\* C6: when every element of KeywordList occurs in the lower-cased resume
\* text the score is 100, and when none does the score is 0.
C6_AllOrNone ==
    \A r \in Requests :
        Succeeded(r) =>
            LET kws  == locals[r].keywords
                text == Lowered(pdfOut[r][2])
            IN  /\ (\A i \in 1..Len(kws) : Occurs(kws[i], text)) => res[r].score = Num(100)
                /\ (\A i \in 1..Len(kws) : ~Occurs(kws[i], text)) => res[r].score = Num(0)

C6_Witness ==
    \E r \in Requests :
        /\ Succeeded(r)
        /\ locals[r].keywords = <<<<"a">>, <<"b">>>>
        /\ pdfOut[r] = Text(<<"B", "a">>)

\* C7: a request calls the generation service at most once, exactly once
\* when it returns a score, and nothing is written that outlives it.
C7_OneGenerationCall ==
    /\ uploads = {}
    /\ \A r \in Requests :
        /\ genCalls[r] <= 1
        /\ Succeeded(r) => genCalls[r] = 1

C7_Witness ==
    \E r \in Requests : Succeeded(r) /\ genCalls[r] = 1 /\ req[r].file = "pdf"

\* What a request with these inputs and these call results is answered.
ExpectedResponse(rq, po, go) ==
    IF Falsy(rq.file) \/ Falsy(rq.jobDescription) THEN BadRequest
    ELSE IF po[1] # "text" \/ go[1] # "text" THEN CatchResponse
    ELSE LET kws == KeywordsOf(go[2])
         IN  [status |-> 200, score |-> ScoreOf(MatchCountOf(kws, po[2]), Len(kws))]

\* C8: under every interleaving, a request's response depends only on its
\* own inputs and the results of its own calls, and its bindings hold only
\* what its own calls returned.
C8_Independent ==
    \A r \in Requests :
        /\ pc[r] = "done" => res[r] = ExpectedResponse(req[r], pdfOut[r], genOut[r])
        /\ pc[r] \in {"awaitGen", "awaitResponse"} => locals[r].resumeText = pdfOut[r][2]
        /\ pc[r] = "awaitResponse" => locals[r].result = genOut[r]

C8_Witness ==
    /\ pc[1] = "done" /\ res[1].score = Num(100)
    /\ pc[2] = "awaitResponse"
    /\ pdfOut[2] # pdfOut[1]
    /\ genOut[2] # genOut[1]

\* C9: the generation service is called only after extraction succeeded; a
\* request whose extraction failed is answered 500 with no generation call.
C9_ExtractionFirst ==
    \A r \in Requests :
        /\ genCalls[r] > 0 => pdfOut[r][1] = "text"
        /\ pdfOut[r] = Failed => genCalls[r] = 0 /\ res[r].status = 500

C9_Witness ==
    \E r \in Requests : pdfOut[r] = Failed /\ pc[r] = "done" /\ genCalls[r] = 0

\* C10: a request is answered at most once, with 400, 500 or 200 and a
\* score; when every call settles it is answered eventually; and while its
\* generation call is outstanding nothing answers it but that call settling.
C10_AnsweredOnce ==
    /\ [](\A r \in Requests :
            /\ sent[r] <= 1
            /\ sent[r] = 1 <=> pc[r] = "done"
            /\ sent[r] = 0 <=> res[r] = NoResponse
            /\ sent[r] = 1 => /\ res[r].status \in {400, 500, 200}
                              /\ res[r].status = 200 <=> res[r].score # NoScore)
    /\ \A r \in Requests : (pc[r] # "idle") ~> (sent[r] = 1)
    /\ [][\A r \in Requests :
            (pc[r] = "awaitGen" /\ res'[r] # res[r]) => genOut'[r] # genOut[r]]_vars

C10_Witness ==
    /\ sent[1] = 1 /\ res[1].status = 200
    /\ sent[2] = 1 /\ res[2].status = 500 /\ genOut[2] = Blocked

====
